---- MODULE Spec2Model ----
(***************************************************************************)
(* A model of two parts of the repository:                                 *)
(*                                                                         *)
(*  - turbo-tasks' AdjacencyMap graph store (graph/adjacency_map.rs): the  *)
(*    roots list, the node -> successor-list map, insert, and the three    *)
(*    iterators built from it (reverse topological, owned and borrowed,    *)
(*    and breadth-first edges);                                            *)
(*  - turbopack's module_references (ecmascript/references.rs): the        *)
(*    package.json lookup, the syntactic visitor and the effect loop that  *)
(*    together fill the reference list.                                    *)
(*                                                                         *)
(* Spec and SpecScenario run the graph store.  SpecRefs runs               *)
(* module_references as a whole; SpecCall, SpecVisit, SpecValueVisitor and *)
(* SpecLink run handle_call, the visitor, value_visitor and the linking of *)
(* one effect's arguments on their own, on larger sets of inputs.          *)
(*                                                                         *)
(* Nodes are the integers 1..NumNodes; Option::None is modelled as 0 and   *)
(* Some(x) as x.                                                           *)
(***************************************************************************)
EXTENDS Integers, Sequences, FiniteSets, TLC

\* ------------------------------------------------------------------ bounds
NumNodes == 3
MaxInserts == 3

Nodes == 1..NumNodes
None == 0

VARIABLES
    roots,          \* AdjacencyMap.roots: Vec<T>
    adjacency_map,  \* AdjacencyMap.adjacency_map: HashMap<T, Vec<T>>
    inserted,       \* the value returned by the latest insert call
    pending,        \* the insert calls a scripted caller has still to make
    iter,           \* which iterator is alive ("none" while the map is built)
    stack,          \* the iterator's stack (a VecDeque for breadth first)
    visited,        \* the iterator's visited set
    out,            \* the items next() has yielded so far, in order
    done,           \* next() has returned None
    starts,         \* history: the nodes the iterator was started from
    visit_order,    \* history: the order in which nodes entered `visited`
    pc,             \* module_references: where the task is
    references,     \* module_references: the local Vec of references
    diagnostics,    \* the warnings the handler has collected
    module,         \* the parsed module: its statements in traversal order
    effect_index,   \* how many effects of var_graph.effects were handled
    result,         \* what module_references returned ("pending" before)
    parsed,         \* what parse(source) gave ("pending" before)
    effect_func,    \* handle_call on its own: the linked callee (func)
    effect_args,    \* handle_call on its own: what args().await gives
    webpack_runtime,\* the visitor on its own: self.webpack_runtime
    visit_index,    \* the visitor on its own: the statements visited so far
    source_path,    \* linking: what source.path().await gives
    visitor_in,     \* value_visitor on its own: the value it is given
    visitor_out,    \* value_visitor on its own: what it returned
    link_tasks,     \* the link futures of one effect's arguments
    link_cache,     \* the LinkCache behind the mutex
    link_order      \* history: the order in which the link futures ended

adjVars == <<roots, adjacency_map, inserted, pending>>
iterVars == <<iter, stack, visited, out, done, starts, visit_order>>
callVars == <<effect_func, effect_args>>
visitVars == <<webpack_runtime, visit_index>>
linkVars == <<source_path, visitor_in, visitor_out, link_tasks, link_cache, link_order>>
refVars == <<pc, references, diagnostics, module, effect_index, result, parsed,
             effect_func, effect_args, webpack_runtime, visit_index,
             source_path, visitor_in, visitor_out, link_tasks, link_cache,
             link_order>>
vars == <<roots, adjacency_map, inserted, pending,
          iter, stack, visited, out, done, starts, visit_order,
          pc, references, diagnostics, module, effect_index, result, parsed,
          effect_func, effect_args, webpack_runtime, visit_index,
          source_path, visitor_in, visitor_out, link_tasks, link_cache,
          link_order>>

\* ------------------------------------------------------------ AdjacencyMap

\* AdjacencyMap::new
NewMap ==
    /\ roots = <<>>
    /\ adjacency_map = <<>>
    /\ inserted = <<>>

\* vec.push(node)
PushNodeFront(vec, node) == <<node>> \o vec
PushNode(vec, node) == Append(vec, node)

\* AdjacencyMap::get: Some(successors) or None
HasEntry(adj, node) == node \in DOMAIN adj

\* The successor list insert() pushes to: the entry of from_handle, created
\* empty when absent.
EntryOrInsert(adj, from_handle) ==
    IF HasEntry(adj, from_handle) THEN adj[from_handle] ELSE <<>>

\* GraphStore::insert for AdjacencyMap
InsertCall(from_handle, node) ==
    /\ IF from_handle # None
       THEN LET vec == PushNode(EntryOrInsert(adjacency_map, from_handle), node) IN
            /\ adjacency_map' =
                 [k \in DOMAIN adjacency_map \cup {from_handle} |->
                    IF k = from_handle THEN vec ELSE adjacency_map[k]]
            /\ roots' = roots
            /\ inserted' = <<node, vec[Len(vec)]>>
       ELSE LET vec == PushNode(roots, node) IN
            /\ roots' = vec
            /\ adjacency_map' = adjacency_map
            /\ inserted' = <<node, vec[Len(vec)]>>

RECURSIVE SumLen(_, _)
SumLen(adj, keys) ==
    IF keys = {} THEN 0
    ELSE LET k == CHOOSE x \in keys : TRUE IN
         Len(adj[k]) + SumLen(adj, keys \ {k})

\* The number of insert calls made so far.
Recorded == Len(roots) + SumLen(adjacency_map, DOMAIN adjacency_map)

Insert ==
    /\ iter = "none"
    /\ pending = <<>>
    /\ Recorded < MaxInserts
    /\ \E from_handle \in Nodes \cup {None}, node \in Nodes :
          InsertCall(from_handle, node)
    /\ UNCHANGED <<pending, iterVars, refVars>>

\* A scripted caller makes the next insert call of its script.
ScriptedInsert ==
    /\ iter = "none"
    /\ pending # <<>>
    /\ InsertCall(Head(pending)[1], Head(pending)[2])
    /\ pending' = Tail(pending)
    /\ UNCHANGED <<iterVars, refVars>>

\* ------------------------------------------------- reverse topological order

\* `.rev()` over a Vec
Rev(s) == [i \in 1..Len(s) |-> s[Len(s) + 1 - i]]

\* `.map(|x| (ReverseTopologicalPass::Pre, x))`
AsPre(s) == [i \in 1..Len(s) |-> <<"Pre", s[i]>>]

\* self.stack.pop(): the last element and the rest
Top(st) == st[Len(st)]
Pop(st) == SubSeq(st, 1, Len(st) - 1)

\* The stack the constructors start from: the roots, reversed, each as Pre.
RootFramesSkipFirst(rs) == AsPre(Rev(SubSeq(rs, 2, Len(rs))))
RootFrames(rs) == AsPre(Rev(rs))

IntoRootFrames(rs) == AsPre(Rev(rs))

\* Pre pass of a node that has successors: push (Post, current), then the
\* successors, reversed, each as Pre.
PushFramePostOnTop(st, current, neighbors) ==
    (st \o AsPre(Rev(neighbors))) \o << <<"Post", current>> >>
PushFrameNoRev(st, current, neighbors) ==
    (st \o << <<"Post", current>> >>) \o AsPre(neighbors)
PushFrame(st, current, neighbors) ==
    (st \o << <<"Post", current>> >>) \o AsPre(Rev(neighbors))

IntoPushFrame(st, current, neighbors) ==
    (st \o << <<"Post", current>> >>) \o AsPre(Rev(neighbors))

\* ReverseTopologicalIter::next: the loop runs until it breaks with a node or
\* the stack is empty.  The result holds the new stack and visited set, the
\* item returned (None for Option::None) and the nodes newly marked visited.
RECURSIVE ReverseTopologicalIterNext(_, _, _, _)
ReverseTopologicalIterNext(adj, st, vis, log) ==
    IF st = <<>>
    THEN [stack |-> st, visited |-> vis, item |-> None, log |-> log]
    ELSE LET pass == Top(st)[1]
             current == Top(st)[2]
             rest == Pop(st)
         IN  IF pass = "Post"
             THEN [stack |-> rest, visited |-> vis, item |-> current, log |-> log]
             ELSE IF current \in vis
             THEN ReverseTopologicalIterNext(adj, rest, vis, log)
             ELSE IF ~HasEntry(adj, current)
             THEN [stack |-> rest, visited |-> vis \cup {current},
                   item |-> current, log |-> Append(log, current)]
             ELSE ReverseTopologicalIterNext(
                      adj, PushFrame(rest, current, adj[current]),
                      vis \cup {current}, Append(log, current))

\* IntoReverseTopologicalIter::next: the same loop over the owned map.
RECURSIVE IntoReverseTopologicalIterNext(_, _, _, _)
IntoReverseTopologicalIterNext(adj, st, vis, log) ==
    IF st = <<>>
    THEN [stack |-> st, visited |-> vis, item |-> None, log |-> log]
    ELSE LET pass == Top(st)[1]
             current == Top(st)[2]
             rest == Pop(st)
         IN  IF pass = "Post"
             THEN [stack |-> rest, visited |-> vis, item |-> current, log |-> log]
             ELSE IF current \in vis
             THEN IntoReverseTopologicalIterNext(adj, rest, vis, log)
             ELSE IF ~HasEntry(adj, current)
             THEN [stack |-> rest, visited |-> vis \cup {current},
                   item |-> current, log |-> Append(log, current)]
             ELSE IntoReverseTopologicalIterNext(
                      adj, IntoPushFrame(rest, current, adj[current]),
                      vis \cup {current}, Append(log, current))

\* A fresh iterator over `st`.
StartIter(kind, from, st) ==
    /\ iter = "none"
    /\ iter' = kind
    /\ starts' = from
    /\ stack' = st
    /\ visited' = {}
    /\ out' = <<>>
    /\ done' = FALSE
    /\ visit_order' = <<>>
    /\ UNCHANGED <<adjVars, refVars>>

\* AdjacencyMap::reverse_topological
ReverseTopological == StartIter("reverse_topological", roots, RootFrames(roots))

\* AdjacencyMap::into_reverse_topological
IntoReverseTopological ==
    StartIter("into_reverse_topological", roots, IntoRootFrames(roots))

\* AdjacencyMap::reverse_topological_from_node
ReverseTopologicalFromNode ==
    \E node \in Nodes :
        StartIter("reverse_topological_from_node", <<node>>,
                  << <<"Pre", node>> >>)

\* One call of next() on an iterator: `r` is what the call computed.
Advance(r) ==
    /\ stack' = r.stack
    /\ visited' = r.visited
    /\ visit_order' = r.log
    /\ IF r.item = None
       THEN done' = TRUE /\ out' = out
       ELSE done' = FALSE /\ out' = Append(out, r.item)
    /\ UNCHANGED <<adjVars, iter, starts, refVars>>

ReverseTopologicalNext ==
    /\ iter \in {"reverse_topological", "reverse_topological_from_node"}
    /\ ~done
    /\ Advance(ReverseTopologicalIterNext(adjacency_map, stack, visited, visit_order))

IntoReverseTopologicalNext ==
    /\ iter = "into_reverse_topological"
    /\ ~done
    /\ Advance(IntoReverseTopologicalIterNext(adjacency_map, stack, visited, visit_order))

\* ------------------------------------------------------ breadth-first edges

\* The queue into_breadth_first_edges starts from: the roots, reversed, each
\* paired with no parent.
RootEdges(rs) == [i \in 1..Len(rs) |-> <<None, Rev(rs)[i]>>]

\* self.stack.extend(neighbors.iter().rev().map(|n| (Some(current), n)))
EnqueueNeighborsDropLast(queue, current, neighbors) ==
    queue \o [i \in 1..(Len(neighbors) - 1) |-> <<current, Rev(neighbors)[i]>>]
EnqueueNeighborsFront(queue, current, neighbors) ==
    [i \in 1..Len(neighbors) |-> <<current, Rev(neighbors)[i]>>] \o queue
EnqueueNeighbors(queue, current, neighbors) ==
    queue \o [i \in 1..Len(neighbors) |-> <<current, Rev(neighbors)[i]>>]

\* self.visited.insert(current) returned true: current was not visited yet
IsNewAlways(vis, current) == TRUE
IsNew(vis, current) == current \notin vis

\* IntoBreadthFirstEdges::next on a non-empty queue: pop the front pair; the
\* first time a node with successors is popped, its edges are enqueued.
IntoBreadthFirstEdgesNext(adj, queue, vis) ==
    LET parent == Head(queue)[1]
        current == Head(queue)[2]
        rest == Tail(queue)
    IN  IF ~HasEntry(adj, current)
        THEN [stack |-> rest, visited |-> vis \cup {current},
              item |-> <<parent, current>>]
        ELSE [stack |-> IF IsNew(vis, current)
                        THEN EnqueueNeighbors(rest, current, adj[current])
                        ELSE rest,
              visited |-> vis \cup {current},
              item |-> <<parent, current>>]

\* AdjacencyMap::into_breadth_first_edges
IntoBreadthFirstEdges ==
    StartIter("into_breadth_first_edges", roots, RootEdges(roots))

BreadthFirstNext ==
    /\ iter = "into_breadth_first_edges"
    /\ ~done
    /\ IF stack = <<>>
       THEN /\ done' = TRUE
            /\ UNCHANGED <<adjVars, iter, stack, visited, out, starts,
                           visit_order, refVars>>
       ELSE LET r == IntoBreadthFirstEdgesNext(adjacency_map, stack, visited) IN
            /\ stack' = r.stack
            /\ visited' = r.visited
            /\ out' = Append(out, r.item)
            /\ visit_order' =
                 IF Head(stack)[2] \in visited THEN visit_order
                 ELSE Append(visit_order, Head(stack)[2])
            /\ UNCHANGED <<adjVars, iter, done, starts, refVars>>

\* ------------------------------------------------------------ specification

\* No iterator exists yet.
NoIter ==
    /\ iter = "none"
    /\ stack = <<>>
    /\ visited = {}
    /\ out = <<>>
    /\ done = FALSE
    /\ starts = <<>>
    /\ visit_order = <<>>

\* Nothing is being linked.
NoLink ==
    /\ source_path = <<>>
    /\ visitor_in = <<>>
    /\ visitor_out = <<>>
    /\ link_tasks = <<>>
    /\ link_cache = {}
    /\ link_order = <<>>

\* module_references has not been called.
NotCalled ==
    /\ NoLink
    /\ pc = "idle"
    /\ references = <<>>
    /\ diagnostics = <<>>
    /\ module = <<>>
    /\ effect_index = 0
    /\ result = "pending"
    /\ parsed = "pending"
    /\ effect_func = <<>>
    /\ effect_args = <<>>
    /\ webpack_runtime = <<>>
    /\ visit_index = 0

Init ==
    /\ NewMap
    /\ pending = <<>>
    /\ NoIter
    /\ NotCalled

Next ==
    \/ Insert
    \/ ReverseTopological
    \/ IntoReverseTopological
    \/ ReverseTopologicalFromNode
    \/ IntoBreadthFirstEdges
    \/ ReverseTopologicalNext
    \/ IntoReverseTopologicalNext
    \/ BreadthFirstNext

Spec == Init /\ [][Next]_vars

\* The insert calls of the diamond scenario: (None,A), (A,B), (A,C), (B,D),
\* (C,D), with A, B, C, D = 1, 2, 3, 4.
DiamondInserts == << <<None, 1>>, <<1, 2>>, <<1, 3>>, <<2, 4>>, <<3, 4>> >>

\* The scripts of the scenario specification: the five calls in any order.
DiamondScripts ==
    { [i \in 1..Len(DiamondInserts) |-> DiamondInserts[p[i]]] :
        p \in { q \in [1..Len(DiamondInserts) -> 1..Len(DiamondInserts)] :
                  \A i, j \in 1..Len(DiamondInserts) : i # j => q[i] # q[j] } }

InitScenario ==
    /\ NewMap
    /\ pending \in DiamondScripts
    /\ NoIter
    /\ NotCalled

NextScenario ==
    \/ ScriptedInsert
    \/ ReverseTopological
    \/ IntoReverseTopological
    \/ ReverseTopologicalFromNode
    \/ IntoBreadthFirstEdges
    \/ ReverseTopologicalNext
    \/ IntoReverseTopologicalNext
    \/ BreadthFirstNext

SpecScenario == InitScenario /\ [][NextScenario]_vars

\* ------------------------------------------------------- graph vocabulary

Range(s) == { s[i] : i \in 1..Len(s) }

\* The successors recorded for a node (none when it has no entry).
Succ(n) == IF HasEntry(adjacency_map, n) THEN Range(adjacency_map[n]) ELSE {}

RECURSIVE Closure(_)
Closure(S) ==
    LET T == S \cup UNION { Succ(n) : n \in S } IN
    IF T = S THEN S ELSE Closure(T)

\* The nodes reachable from the nodes the iterator was started from.
Reachable == Closure(Range(starts))

\* v can be reached from u along one or more edges.
Reaches(u, v) == v \in Closure(Succ(u))

Occurs(s, x) == Cardinality({ i \in 1..Len(s) : s[i] = x })
Pos(s, x) == CHOOSE i \in 1..Len(s) : s[i] = x
Before(s, x, y) == x \in Range(s) /\ y \in Range(s) /\ Pos(s, x) < Pos(s, y)

RevTopoKinds ==
    {"reverse_topological", "into_reverse_topological",
     "reverse_topological_from_node"}

DiamondBuilt ==
    /\ roots = <<1>>
    /\ DOMAIN adjacency_map = {1, 2, 3}
    /\ adjacency_map[1] = <<2, 3>>
    /\ adjacency_map[2] = <<4>>
    /\ adjacency_map[3] = <<4>>

\* -------------------------------------------------------- module_references

MaxItems == 2
MaxEffects == 2

\* A JsValue: its variant, the name it carries (a well-known kind or a
\* string literal) and, for Alternatives, its branches.
JsValue(tag, name, alts) == [tag |-> tag, name |-> name, alts |-> alts]
WellKnownFunction(kind) == JsValue("WellKnownFunction", kind, <<>>)
ConstantStr(str) == JsValue("Constant", str, <<>>)
Unknown == JsValue("Unknown", "", <<>>)
Alternatives(alts) == JsValue("Alternatives", "", alts)

\* An AssetReference pushed to `references`: its variant, its request (or
\* path, or chunk id) and, for the webpack variants, the runtime handle.
\* `by` and `at` are history: the component that pushed it ("P" for the
\* package.json lookup, "G" for the visitor, "F" for handle_call) and the
\* index of the statement or effect it was pushed for.
Ref(kind, request, runtime, by, at) ==
    [kind |-> kind, request |-> request, runtime |-> runtime, by |-> by, at |-> at]

\* PackageJsonReferenceRef::new(package_json)
PackageJsonReference == Ref("PackageJson", "package.json", <<>>, "P", 0)

\* EsmAssetReferenceRef::new(source, request)
EsmAssetReference(request, by, at) == Ref("Esm", request, <<>>, by, at)

\* errors::failed_to_analyse::ecmascript
DYNAMIC_IMPORT == "failed-to-analyse/ecmascript/dynamic-import"
REQUIRE == "failed-to-analyse/ecmascript/require"
FS_METHOD == "failed-to-analyse/ecmascript/fs-method"

\* handler.span_warn_with_code(span, .., DiagnosticId::Error(id))
Diagnostic(id, at) == [id |-> id, at |-> at]

\* Pattern::from(value).into_string(): Some(str), as <<str>>, for a literal
\* string and None, as <<>>, otherwise.
PatternIntoString(value) ==
    IF value.tag = "Constant" THEN <<value.name>> ELSE <<>>

\* references.push(..) in handle_call
EmitFFront(refs, new) == new \o refs
EmitF(refs, new) == refs \o new

\* self.references.push(..) in the visitor
EmitGFront(refs, new) == new \o refs
EmitG(refs, new) == refs \o new

\* The state handle_call works on and returns: ok is FALSE once an awaited
\* link has failed (the `?` returned the error).
CallState(ok, refs, diags) == [ok |-> ok, refs |-> refs, diags |-> diags]

\* The arms of handle_call that await the arguments: `args` is what
\* args().await gave, [ok, vals]; `literal_ok` says whether the argument
\* count allows a reference, `id` is the arm's diagnostic id.
AnalyseCallAbort(st, args, at, literal_ok, id) ==
    IF ~args.ok THEN CallState(FALSE, st.refs, st.diags)
    ELSE IF literal_ok /\ PatternIntoString(args.vals[1]) # <<>>
    THEN CallState(TRUE,
                   EmitF(st.refs,
                         <<EsmAssetReference(PatternIntoString(args.vals[1])[1], "F", at)>>),
                   st.diags)
    ELSE CallState(FALSE, st.refs, Append(st.diags, Diagnostic(id, at)))
AnalyseCall(st, args, at, literal_ok, id) ==
    IF ~args.ok THEN CallState(FALSE, st.refs, st.diags)
    ELSE IF literal_ok /\ PatternIntoString(args.vals[1]) # <<>>
    THEN CallState(TRUE,
                   EmitF(st.refs,
                         <<EsmAssetReference(PatternIntoString(args.vals[1])[1], "F", at)>>),
                   st.diags)
    ELSE CallState(TRUE, st.refs, Append(st.diags, Diagnostic(id, at)))

\* The Import arm: one argument that is a literal string gives an Esm
\* reference, every other call a dynamic-import diagnostic.
ImportArmRequireId(st, args, at) ==
    AnalyseCall(st, args, at, Len(args.vals) = 1, REQUIRE)
ImportArm(st, args, at) ==
    AnalyseCall(st, args, at, Len(args.vals) = 1, DYNAMIC_IMPORT)

\* The Require arm: the same with the require diagnostic.
RequireArm(st, args, at) ==
    AnalyseCall(st, args, at, Len(args.vals) = 1, REQUIRE)

\* The RequireResolve arm: the arguments are awaited and the call is always
\* reported, with the require diagnostic id.
RequireResolveArmAsRequire(st, args, at) ==
    AnalyseCall(st, args, at, Len(args.vals) = 1, REQUIRE)
RequireResolveArm(st, args, at) ==
    AnalyseCall(st, args, at, FALSE, REQUIRE)

\* The FsReadMethod arm: only the first argument counts.
FsReadMethodArmOneArg(st, args, at) ==
    AnalyseCall(st, args, at, Len(args.vals) = 1, FS_METHOD)
FsReadMethodArm(st, args, at) ==
    AnalyseCall(st, args, at, Len(args.vals) >= 1, FS_METHOD)

\* handle_call, from the state st: Alternatives recurse on each branch in
\* order and stop at the first error; the well-known functions await the
\* arguments; every other callee is ignored.
RECURSIVE handle_call(_, _, _, _)
RECURSIVE handle_alts(_, _, _, _, _)
handle_altsFirstOnly(st, alts, i, args, at) ==
    IF i > 1 \/ i > Len(alts) \/ ~st.ok THEN st
    ELSE handle_alts(handle_call(st, alts[i], args, at), alts, i + 1, args, at)
handle_alts(st, alts, i, args, at) ==
    IF i > Len(alts) \/ ~st.ok THEN st
    ELSE handle_alts(handle_call(st, alts[i], args, at), alts, i + 1, args, at)

handle_call(st, func, args, at) ==
    IF func.tag = "Alternatives" THEN handle_alts(st, func.alts, 1, args, at)
    ELSE IF func.tag # "WellKnownFunction" THEN st
    ELSE IF func.name = "Import" THEN ImportArm(st, args, at)
    ELSE IF func.name = "Require" THEN RequireArm(st, args, at)
    ELSE IF func.name = "RequireResolve" THEN RequireResolveArm(st, args, at)
    ELSE IF func.name = "FsReadMethod" THEN FsReadMethodArm(st, args, at)
    ELSE st

\* A statement or expression the visitor meets, in traversal order: its
\* form, its source string (<<>> for none) and, for the chunk call, the
\* elements of the array literal.
Item(kind, src, elems) == [kind |-> kind, src |-> src, elems |-> elems]
Elem(kind, value) == [kind |-> kind, value |-> value]

\* What resolve() answers for a request, in the file system the model
\* fixes: a single asset, several, or none.
Resolve(request) ==
    IF request \in {"./rt.js", "./lib.js"} THEN "Single"
    ELSE IF request = "./many" THEN "Many"
    ELSE "Unresolvable"

\* is_webpack_runtime(source) on the asset a request resolved to.
WebpackRuntimeNone == "None"
is_webpack_runtime(request) ==
    IF request = "./rt.js" THEN "Webpack" ELSE WebpackRuntimeNone

\* resolve_as_webpack_runtime: what the runtime handle resolves to.
resolve_as_webpack_runtimeAnyAnswer(request) == is_webpack_runtime("./rt.js")
resolve_as_webpack_runtime(request) ==
    IF Resolve(request) = "Single" THEN is_webpack_runtime(request)
    ELSE WebpackRuntimeNone

\* Some(handle): the call resolve_as_webpack_runtime(dir, request) together
\* with what it resolves to.
RuntimeHandle(request) ==
    <<[request |-> request, value |-> resolve_as_webpack_runtime(request)]>>

\* The chunk references of visit_call_expr's X arm, one per literal element.
RECURSIVE ChunkRefsWithSpread(_, _, _)
ChunkRefsWithSpread(elems, runtime, at) ==
    IF elems = <<>> THEN <<>>
    ELSE (IF Head(elems).kind \in {"lit", "spread"}
          THEN <<Ref("WebpackChunk", Head(elems).value, runtime, "G", at)>>
          ELSE <<>>) \o ChunkRefsWithSpread(Tail(elems), runtime, at)
RECURSIVE ChunkRefs(_, _, _)
ChunkRefs(elems, runtime, at) ==
    IF elems = <<>> THEN <<>>
    ELSE (IF Head(elems).kind = "lit"
          THEN <<Ref("WebpackChunk", Head(elems).value, runtime, "G", at)>>
          ELSE <<>>) \o ChunkRefs(Tail(elems), runtime, at)

\* visit_var_declarator on `__webpack_require__ = require("<literal>")`:
\* the handle is remembered and the candidate reference pushed.
VisitWebpackRequireDecl(v, item, at) ==
    [refs |-> EmitG(v.refs, <<Ref("WebpackRuntimeCandidate", item.src[1],
                                  <<>>, "G", at)>>),
     webpack_runtime |-> RuntimeHandle(item.src[1])]

\* visit_call_expr on __webpack_require__.C(...)
VisitCallCUnguarded(v, at) ==
    [v EXCEPT !.refs =
        EmitG(@, <<Ref("WebpackEntry", "", v.webpack_runtime, "G", at)>>)]
VisitCallC(v, at) ==
    IF v.webpack_runtime # <<>>
    THEN [v EXCEPT !.refs =
             EmitG(@, <<Ref("WebpackEntry", "", v.webpack_runtime, "G", at)>>)]
    ELSE v

\* visit_call_expr on __webpack_require__.X(_, [elems], _)
VisitCallX(v, item, at) ==
    IF v.webpack_runtime # <<>>
    THEN [v EXCEPT !.refs = EmitG(@, ChunkRefs(item.elems, v.webpack_runtime, at))]
    ELSE v

\* One visit_* method of AssetReferencesVisitor on the visitor state v:
\* the references pushed so far and the remembered webpack runtime.
VisitItem(v, item, at) ==
    IF item.kind \in {"import", "export_all"}
    THEN [v EXCEPT !.refs = EmitG(@, <<EsmAssetReference(item.src[1], "G", at)>>)]
    ELSE IF item.kind = "named_export"
    THEN IF item.src # <<>>
         THEN [v EXCEPT !.refs = EmitG(@, <<EsmAssetReference(item.src[1], "G", at)>>)]
         ELSE v
    ELSE IF item.kind = "webpack_require_decl"
    THEN VisitWebpackRequireDecl(v, item, at)
    ELSE IF item.kind = "call_C" THEN VisitCallC(v, at)
    ELSE IF item.kind = "call_X" THEN VisitCallX(v, item, at)
    ELSE v

\* module.visit_with(&mut visitor): the statements from index i on.
RECURSIVE VisitWith(_, _, _)
VisitWith(v, items, i) ==
    IF i > Len(items) THEN v
    ELSE VisitWith(VisitItem(v, items[i], i), items, i + 1)

\* AssetReferencesVisitor::new
NewVisitor(refs) == [refs |-> refs, webpack_runtime |-> <<>>]

\* The statements the parsed modules are made of.
ItemChoices ==
    << Item("import", <<"a">>, <<>>),
       Item("import", <<"b">>, <<>>),
       Item("named_export", <<>>, <<>>),
       Item("webpack_require_decl", <<"./rt.js">>, <<>>),
       Item("call_C", <<>>, <<>>),
       Item("call_X", <<>>, <<Elem("lit", "a"), Elem("lit", "b")>>),
       Item("other", <<>>, <<>>) >>

Modules ==
    UNION { [1..n -> Range(ItemChoices)] : n \in 0..MaxItems }

\* What linking the callee of an effect can give.
FuncChoices ==
    << WellKnownFunction("Require"),
       WellKnownFunction("Import"),
       WellKnownFunction("RequireResolve"),
       WellKnownFunction("FsReadMethod"),
       Unknown,
       Alternatives(<<WellKnownFunction("Require"), WellKnownFunction("FsReadMethod")>>),
       Alternatives(<<Unknown, WellKnownFunction("Import")>>) >>

\* What linking the arguments of an effect can give: the linked values, or
\* the error of a failed link.
ArgsChoices ==
    << [ok |-> TRUE, vals |-> <<>>],
       [ok |-> TRUE, vals |-> <<ConstantStr("./c")>>],
       [ok |-> TRUE, vals |-> <<Unknown>>],
       [ok |-> TRUE, vals |-> <<ConstantStr("./c"), ConstantStr("./d")>>],
       [ok |-> FALSE, vals |-> <<>>] >>

\* module_references is called.
Call ==
    /\ pc = "idle"
    /\ pc' = "find_package_json"
    /\ UNCHANGED <<adjVars, iterVars, references, diagnostics, module,
                   effect_index, result, parsed, callVars, linkVars, visitVars>>

\* The task ends with an error: the local state is dropped.
ReturnErrKeepReferences ==
    /\ pc' = "done"
    /\ result' = "Err"
    /\ references' = references
ReturnErr ==
    /\ pc' = "done"
    /\ result' = "Err"
    /\ references' = <<>>

\* find_package_json(source.path().parent()).await?
FindPackageJson ==
    /\ pc = "find_package_json"
    /\ \E found \in {"Found", "NotFound", "Err"} :
          IF found = "Err" THEN ReturnErr
          ELSE /\ pc' = "parse"
               /\ result' = result
               /\ references' =
                    IF found = "Found" THEN Append(references, PackageJsonReference)
                    ELSE references
    /\ UNCHANGED <<adjVars, iterVars, diagnostics, module, effect_index,
                   parsed, callVars, linkVars, visitVars>>

\* The match on the parse result: the Ok arm goes on to the visitor, the
\* Unparseable | NotFound arm does nothing and the function returns.
ParseArmUnparseableAsOk(p) == IF p = "NotFound" THEN "done" ELSE "visit"
ParseArm(p) == IF p = "Ok" THEN "visit" ELSE "done"

\* parse(source.clone()).await? and the match on its result
Parse ==
    /\ pc = "parse"
    /\ \/ /\ ReturnErr
          /\ UNCHANGED <<module, parsed>>
       \/ \E m \in Modules :
             /\ parsed' = "Ok"
             /\ module' = m
             /\ pc' = ParseArm("Ok")
             /\ result' = IF ParseArm("Ok") = "done" THEN "Ok" ELSE result
             /\ UNCHANGED references
       \/ \E p \in {"Unparseable", "NotFound"} :
             /\ parsed' = p
             /\ module' = module
             /\ pc' = ParseArm(p)
             /\ result' = IF ParseArm(p) = "done" THEN "Ok" ELSE result
             /\ UNCHANGED references
    /\ UNCHANGED <<adjVars, iterVars, diagnostics, effect_index, callVars, linkVars, visitVars>>

\* create_graph and the syntactic visitor
Visit ==
    /\ pc = "visit"
    /\ references' = VisitWith(NewVisitor(references), module, 1).refs
    /\ pc' = "effects"
    /\ UNCHANGED <<adjVars, iterVars, diagnostics, module, effect_index, result,
                   parsed, callVars, linkVars, visitVars>>

\* One turn of the loop over var_graph.effects: link the callee, then
\* handle_call.
Effect ==
    /\ pc = "effects"
    /\ effect_index < MaxEffects
    /\ effect_index' = effect_index + 1
    /\ \/ /\ ReturnErr
          /\ diagnostics' = diagnostics
       \/ \E f \in 1..Len(FuncChoices), a \in 1..Len(ArgsChoices) :
             LET r == handle_call(CallState(TRUE, references, diagnostics),
                                  FuncChoices[f], ArgsChoices[a], effect_index + 1)
             IN  IF r.ok
                 THEN /\ references' = r.refs
                      /\ diagnostics' = r.diags
                      /\ UNCHANGED <<pc, result>>
                 ELSE /\ ReturnErr
                      /\ diagnostics' = r.diags
    /\ UNCHANGED <<adjVars, iterVars, module, parsed, callVars, linkVars, visitVars>>

\* The loop is over: Ok(AssetReferencesSet { references })
Return ==
    /\ pc = "effects"
    /\ pc' = "done"
    /\ result' = "Ok"
    /\ UNCHANGED <<adjVars, iterVars, references, diagnostics, module,
                   effect_index, parsed, callVars, linkVars, visitVars>>

InitRefs ==
    /\ NewMap
    /\ pending = <<>>
    /\ NoIter
    /\ NotCalled

NextRefs ==
    \/ Call
    \/ FindPackageJson
    \/ Parse
    \/ Visit
    \/ Effect
    \/ Return

SpecRefs == InitRefs /\ [][NextRefs]_vars

\* ------------------------------------------------------ handle_call alone

\* The most arguments a call carries, and the most alternatives a callee
\* value carries.
MaxArgs == 2
MaxAlts == 2

WellKnownFunctionKinds ==
    {"Require", "Import", "RequireResolve", "FsReadMethod", "PathJoin"}

\* What link() can give for a callee that is not an Alternatives value.
PlainFuncs == {WellKnownFunction(k) : k \in WellKnownFunctionKinds} \cup {Unknown}

NestedFuncs ==
    LET few == {WellKnownFunction("Require"), WellKnownFunction("FsReadMethod"),
                Unknown}
    IN  {Alternatives(<<f, Alternatives(<<g, h>>)>>) : f \in few, g \in few, h \in few}

FuncValues ==
    PlainFuncs
        \cup {Alternatives(alts) : alts \in UNION {[1..n -> PlainFuncs] : n \in 1..MaxAlts}}
        \cup NestedFuncs

\* What link() can give for one argument.
ArgValues ==
    {ConstantStr("./c"), ConstantStr("./d"), Unknown,
     Alternatives(<<ConstantStr("./d"), ConstantStr("./e")>>)}

\* What args().await can give: the linked arguments, or an error.
ArgsValues ==
    {[ok |-> TRUE, vals |-> vals] :
        vals \in UNION {[1..n -> ArgValues] : n \in 0..MaxArgs}}
        \cup {[ok |-> FALSE, vals |-> <<>>]}

\* One effect reaches handle_call with its callee linked; reference_list
\* holds what module_references collected before.
InitCall ==
    /\ NewMap
    /\ pending = <<>>
    /\ NoIter
    /\ pc = "handle_call"
    /\ references \in {<<>>, <<PackageJsonReference>>}
    /\ diagnostics = <<>>
    /\ module = <<>>
    /\ effect_index = 0
    /\ result = "pending"
    /\ parsed = "Ok"
    /\ effect_func \in FuncValues
    /\ effect_args \in ArgsValues
    /\ webpack_runtime = <<>>
    /\ visit_index = 0
    /\ NoLink

\* handle_call(func, this, args, ...).await
HandleCall ==
    /\ pc = "handle_call"
    /\ LET r == handle_call(CallState(TRUE, references, diagnostics),
                            effect_func, effect_args, effect_index + 1)
       IN  /\ references' = r.refs
           /\ diagnostics' = r.diags
           /\ result' = IF r.ok THEN "Ok" ELSE "Err"
    /\ pc' = "handled"
    /\ effect_index' = effect_index + 1
    /\ UNCHANGED <<adjVars, iterVars, module, parsed, callVars, linkVars, visitVars>>

NextCall == HandleCall

SpecCall == InitCall /\ [][NextCall]_vars

\* ------------------------------------------------------- the visitor alone

\* The most statements a visited module has.
MaxStatements == 3

\* The statements the visitor is run on: ItemChoices, the other export
\* forms, more declarators of __webpack_require__ (one per answer of the
\* resolver) and more shapes of the chunk call; "call_X_other" is a call of .X whose arguments are not
\* (_, [array literal], _).
Statements ==
    Range(ItemChoices) \cup
    { Item("export_all", <<"a">>, <<>>),
      Item("named_export", <<"b">>, <<>>),
      Item("call_X", <<>>, <<Elem("expr", ""), Elem("lit", "a")>>),
      Item("webpack_require_decl", <<"./lib.js">>, <<>>),
      Item("webpack_require_decl", <<"./many">>, <<>>),
      Item("webpack_require_decl", <<"./missing">>, <<>>),
      Item("call_X", <<>>, <<>>),
      Item("call_X", <<>>, <<Elem("spread", "a"), Elem("hole", ""), Elem("lit", "b")>>),
      Item("call_X_other", <<>>, <<Elem("lit", "a")>>) }

\* AssetReferencesVisitor::new on a parsed module, nothing visited yet.
InitVisit ==
    /\ NewMap
    /\ pending = <<>>
    /\ NoIter
    /\ pc = "visiting"
    /\ references = <<>>
    /\ diagnostics = <<>>
    /\ module \in UNION { [1..n -> Statements] : n \in 0..MaxStatements }
    /\ effect_index = 0
    /\ result = "pending"
    /\ parsed = "Ok"
    /\ effect_func = <<>>
    /\ effect_args = <<>>
    /\ webpack_runtime = NewVisitor(references).webpack_runtime
    /\ visit_index = 0
    /\ NoLink

\* module.visit_with reaches the next statement and calls its visit_*
\* method.
VisitStatement ==
    /\ pc = "visiting"
    /\ visit_index < Len(module)
    /\ visit_index' = visit_index + 1
    /\ LET v == VisitItem([refs |-> references, webpack_runtime |-> webpack_runtime],
                          module[visit_index + 1], visit_index + 1)
       IN  /\ references' = v.refs
           /\ webpack_runtime' = v.webpack_runtime
    /\ UNCHANGED <<adjVars, iterVars, pc, diagnostics, module, effect_index,
                   result, parsed, callVars, linkVars>>

NextVisit == VisitStatement

SpecVisit == InitVisit /\ [][NextVisit]_vars

\* ----------------------------------------------------- value_visitor alone

FreeVar(kind) == JsValue("FreeVar", kind, <<>>)
JsModule(name) == JsValue("Module", name, <<>>)
WellKnownObject(kind) == JsValue("WellKnownObject", kind, <<>>)
Member(obj, prop) == JsValue("Member", prop, <<obj>>)

\* replace_well_known: member accesses on the fs and path modules become
\* well-known functions; (value, modified).
replace_well_known(v) ==
    IF v.tag = "Member" /\ v.alts[1] = WellKnownObject("FsModule")
                        /\ v.name \in {"readFile", "readFileSync", "readdir"}
    THEN [value |-> WellKnownFunction("FsReadMethod"), modified |-> TRUE]
    ELSE IF v.tag = "Member" /\ v.alts[1] = WellKnownObject("PathModule")
                             /\ v.name = "join"
    THEN [value |-> WellKnownFunction("PathJoin"), modified |-> TRUE]
    ELSE [value |-> v, modified |-> FALSE]

\* FileSystemPath.path: the segments joined by "/".
RECURSIVE PathString(_)
PathString(segs) ==
    IF segs = <<>> THEN ""
    ELSE IF Len(segs) = 1 THEN segs[1]
    ELSE segs[1] \o "/" \o PathString(Tail(segs))

VisitorResult(ok, value, modified) ==
    [ok |-> ok, value |-> value, modified |-> modified]

\* value_visitor(source, v); `source` is what source.path().await gives.
value_visitor(source, v) ==
    LET r == replace_well_known(v)
    IN  IF r.value.tag = "FreeVar" /\ r.value.name = "Dirname"
        THEN IF source.ok
             THEN VisitorResult(TRUE, ConstantStr(PathString(source.segs)), TRUE)
             ELSE VisitorResult(FALSE, r.value, FALSE)
        ELSE IF r.value.tag = "FreeVar" /\ r.value.name \in {"Require", "Import"}
        THEN VisitorResult(TRUE, WellKnownFunction(r.value.name), TRUE)
        ELSE IF r.value.tag = "Module" /\ r.value.name = "path"
        THEN VisitorResult(TRUE, WellKnownObject("PathModule"), TRUE)
        ELSE IF r.value.tag = "Module" /\ r.value.name \in {"fs/promises", "fs"}
        THEN VisitorResult(TRUE, WellKnownObject("FsModule"), TRUE)
        ELSE VisitorResult(TRUE, r.value, r.modified)

\* The paths of the source file, or the error of a failed lookup.
SourcePaths ==
    {[ok |-> TRUE, segs |-> segs] :
        segs \in {<<"index.js">>, <<"src", "index.js">>,
                  <<"app", "src", "index.js">>, <<"app", "lib", "util.js">>}}
        \cup {[ok |-> FALSE, segs |-> <<>>]}

\* The values the linker hands to value_visitor.
VisitorValues ==
    {FreeVar(k) : k \in {"Dirname", "Require", "Import", "Filename"}}
        \cup {JsModule(n) : n \in {"path", "fs", "fs/promises", "lodash"}}
        \cup {ConstantStr("./c"), Unknown, WellKnownFunction("Require"),
              WellKnownObject("PathModule"),
              Member(WellKnownObject("PathModule"), "join"),
              Member(WellKnownObject("FsModule"), "readFile"),
              Member(Unknown, "join")}

\* The linker is about to call the value visitor on a value.
InitValueVisitor ==
    /\ NewMap
    /\ pending = <<>>
    /\ NoIter
    /\ pc = "value_visitor"
    /\ references = <<>>
    /\ diagnostics = <<>>
    /\ module = <<>>
    /\ effect_index = 0
    /\ result = "pending"
    /\ parsed = "Ok"
    /\ effect_func = <<>>
    /\ effect_args = <<>>
    /\ webpack_runtime = <<>>
    /\ visit_index = 0
    /\ source_path \in SourcePaths
    /\ visitor_in \in VisitorValues
    /\ visitor_out = <<>>
    /\ link_tasks = <<>>
    /\ link_cache = {}
    /\ link_order = <<>>

\* linker(value): value_visitor(&source, value).await
ValueVisitor ==
    /\ pc = "value_visitor"
    /\ visitor_out' = value_visitor(source_path, visitor_in)
    /\ result' = IF visitor_out'.ok THEN "Ok" ELSE "Err"
    /\ pc' = "value_visited"
    /\ UNCHANGED <<adjVars, iterVars, references, diagnostics, module,
                   effect_index, parsed, callVars, visitVars, source_path,
                   visitor_in, link_tasks, link_cache, link_order>>

NextValueVisitor == ValueVisitor

SpecValueVisitor == InitValueVisitor /\ [][NextValueVisitor]_vars

\* ------------------------------------------- linking one effect's arguments

\* The linker function handed to link(): the value visitor, applied until it
\* reports no change.
RECURSIVE Linker(_, _)
Linker(source, v) ==
    LET r == value_visitor(source, v)
    IN  IF r.ok /\ r.modified THEN Linker(source, r.value) ELSE r

\* link(&var_graph, value, &linker, &cache) without the cache: the children
\* are linked first, then the value itself.
LinkValue(source, v) ==
    IF v.tag = "Member"
    THEN LET child == Linker(source, v.alts[1])
         IN  IF child.ok THEN Linker(source, Member(child.value, v.name))
             ELSE child
    ELSE Linker(source, v)

\* Values that are linked without the cache.
IsLeaf(v) == v.tag # "Member"

CacheEntry(v, linked) == [key |-> v, value |-> linked]
CacheHit(cache, v) == \E e \in cache : e.key = v
CacheGet(cache, v) == (CHOOSE e \in cache : e.key = v).value

\* One link future: the argument, where the future is, and its output.
LinkTask(arg) == [arg |-> arg, at |-> "start", ok |-> TRUE, out |-> Unknown]

\* The argument values of an effect, before linking.
SourceArgs ==
    {ConstantStr("./c"), FreeVar("Dirname"), Unknown,
     Member(JsModule("fs"), "readFile"), Member(Unknown, "join")}

\* try_join_all: the outputs in the order of the futures it was given, or
\* the error of a future that failed.
JoinAllCompletionOrder(tasks, order) ==
    [ok |-> \A i \in 1..Len(tasks) : tasks[i].ok,
     vals |-> IF \A i \in 1..Len(tasks) : tasks[i].ok
              THEN [k \in 1..Len(order) |-> tasks[order[k]].out]
              ELSE <<>>]
JoinAll(tasks, order) ==
    [ok |-> \A i \in 1..Len(tasks) : tasks[i].ok,
     vals |-> IF \A i \in 1..Len(tasks) : tasks[i].ok
              THEN [i \in 1..Len(tasks) |-> tasks[i].out]
              ELSE <<>>]

\* An arm of handle_call has called args(): one link future per argument,
\* all sharing the cache, which earlier links may have filled.
InitLink ==
    /\ NewMap
    /\ pending = <<>>
    /\ NoIter
    /\ pc = "linking"
    /\ references = <<>>
    /\ diagnostics = <<>>
    /\ module = <<>>
    /\ effect_index = 0
    /\ result = "pending"
    /\ parsed = "Ok"
    /\ effect_func \in {WellKnownFunction(k) :
                           k \in {"Require", "Import", "RequireResolve", "FsReadMethod"}}
    /\ effect_args = <<>>
    /\ webpack_runtime = <<>>
    /\ visit_index = 0
    /\ source_path \in {[ok |-> TRUE, segs |-> <<"src", "index.js">>],
                        [ok |-> FALSE, segs |-> <<>>]}
    /\ visitor_in = <<>>
    /\ visitor_out = <<>>
    /\ link_tasks \in UNION {[1..n -> {LinkTask(a) : a \in SourceArgs}] : n \in 0..MaxArgs}
    /\ link_cache \in
           {{}, {CacheEntry(Member(JsModule("fs"), "readFile"),
                            LinkValue(source_path, Member(JsModule("fs"), "readFile")).value)}}
    /\ link_order = <<>>

LinkDone(i, r) ==
    /\ link_tasks' = [link_tasks EXCEPT ![i] =
                         [@ EXCEPT !.at = "done", !.ok = r.ok, !.out = r.value]]
    /\ link_order' = Append(link_order, i)

\* A link future starts: a leaf value is linked at once; any other value is
\* looked up in the cache under the lock, and returned on a hit.
LinkLookup ==
    /\ pc = "linking"
    /\ \E i \in 1..Len(link_tasks) :
          /\ link_tasks[i].at = "start"
          /\ IF IsLeaf(link_tasks[i].arg)
             THEN LinkDone(i, LinkValue(source_path, link_tasks[i].arg))
             ELSE IF CacheHit(link_cache, link_tasks[i].arg)
             THEN LinkDone(i, VisitorResult(TRUE, CacheGet(link_cache, link_tasks[i].arg), FALSE))
             ELSE /\ link_tasks' = [link_tasks EXCEPT ![i].at = "computing"]
                  /\ link_order' = link_order
    /\ UNCHANGED <<adjVars, iterVars, pc, references, diagnostics, module,
                   effect_index, result, parsed, callVars, visitVars,
                   source_path, visitor_in, visitor_out, link_cache>>

\* A link future that missed the cache links the value and, under the lock,
\* stores the result.
LinkStore ==
    /\ pc = "linking"
    /\ \E i \in 1..Len(link_tasks) :
          /\ link_tasks[i].at = "computing"
          /\ LET r == LinkValue(source_path, link_tasks[i].arg)
             IN  /\ LinkDone(i, r)
                 /\ link_cache' =
                        IF r.ok /\ ~CacheHit(link_cache, link_tasks[i].arg)
                        THEN link_cache \cup {CacheEntry(link_tasks[i].arg, r.value)}
                        ELSE link_cache
    /\ UNCHANGED <<adjVars, iterVars, pc, references, diagnostics, module,
                   effect_index, result, parsed, callVars, visitVars,
                   source_path, visitor_in, visitor_out>>

\* args().await returns: every future has ended, or one has failed.
ArgsAwait ==
    /\ pc = "linking"
    /\ \/ \A i \in 1..Len(link_tasks) : link_tasks[i].at = "done"
       \/ \E i \in 1..Len(link_tasks) : link_tasks[i].at = "done" /\ ~link_tasks[i].ok
    /\ effect_args' = JoinAll(link_tasks, link_order)
    /\ pc' = "handle_call"
    /\ UNCHANGED <<adjVars, iterVars, references, diagnostics, module,
                   effect_index, result, parsed, effect_func, visitVars, linkVars>>

NextLink ==
    \/ LinkLookup
    \/ LinkStore
    \/ ArgsAwait
    \/ HandleCall

SpecLink == InitLink /\ [][NextLink]_vars

\* ------------------------------------------------------------------ claims

\* C1: topological soundness.  In a reverse topological iteration, for every
\* recorded edge u -> v that is not on a cycle (u cannot be reached from v):
\* once u has been yielded, v has been yielded before it; and when the
\* iteration is over and u is reachable, both have been yielded, v first.
C1_TopologicalSoundness ==
    iter \in RevTopoKinds =>
        \A u \in DOMAIN adjacency_map : \A v \in Succ(u) :
            (u \in Range(out) \/ (done /\ u \in Reachable)) =>
                (Before(out, v, u) \/ Reaches(v, u))

C1_Witness ==
    /\ iter \in RevTopoKinds
    /\ done
    /\ \E u \in Reachable \cap DOMAIN adjacency_map : \E v \in Succ(u) :
          ~Reaches(v, u) /\ Before(out, v, u)
    /\ \E w \in Reachable : Reaches(w, w)

\* C2: a reverse topological iteration never yields a node twice nor a node
\* that is unreachable from where it started, and when it is over it has
\* yielded every reachable node (exactly once).
C2_ReachableExactlyOnce ==
    iter \in RevTopoKinds =>
        LET R == Reachable IN
        /\ \A n \in Range(out) : Occurs(out, n) = 1 /\ n \in R
        /\ done => \A n \in R : Occurs(out, n) = 1

C2_Witness ==
    /\ iter \in RevTopoKinds
    /\ done
    /\ \/ \E i, j \in 1..Len(roots) : i # j /\ roots[i] = roots[j]
       \/ \E k \in DOMAIN adjacency_map :
             Occurs(adjacency_map[k], adjacency_map[k][1]) > 1
    /\ \E w \in Reachable : Reaches(w, w)
    /\ Reachable # Nodes
    /\ Len(out) = Cardinality(Reachable)

\* The case C3 is about: p's successors were inserted as c1 then c2, neither
\* reachable from the other, and the iteration, now over, visited p before
\* both (so neither had been visited when p was).
SiblingCase(p, c1, c2) ==
    /\ iter \in RevTopoKinds
    /\ done
    /\ HasEntry(adjacency_map, p)
    /\ adjacency_map[p] = <<c1, c2>>
    /\ c1 # c2
    /\ Before(visit_order, p, c1)
    /\ Before(visit_order, p, c2)
    /\ ~Reaches(c1, c2)
    /\ ~Reaches(c2, c1)

\* C3 as stated: the first-inserted child c1 is visited last and appears
\* later in the emitted sequence than c2.
C3_Original ==
    \A p, c1, c2 \in Nodes :
        SiblingCase(p, c1, c2) =>
            Before(visit_order, c2, c1) /\ Before(out, c2, c1)

\* C3, amended: siblings are handled in their insertion order; the
\* first-inserted child c1 is visited first and appears earlier in the
\* emitted sequence than c2.
C3_SiblingsInInsertionOrder ==
    \A p, c1, c2 \in Nodes :
        SiblingCase(p, c1, c2) =>
            Before(visit_order, c1, c2) /\ Before(out, c1, c2)

C3_Witness ==
    \E p, c1, c2 \in Nodes :
        SiblingCase(p, c1, c2) /\ Before(out, c1, c2) /\ Before(out, c2, p)

\* C4: on the diamond built by (None,A), (A,B), (A,C), (B,D), (C,D),
\* reverse_topological yields prefixes of [D, B, C, A] and, when over,
\* exactly [D, B, C, A].
C4_DiamondReverseTopological ==
    (DiamondBuilt /\ iter = "reverse_topological") =>
        /\ out = SubSeq(<<4, 2, 3, 1>>, 1, Len(out))
        /\ done => out = <<4, 2, 3, 1>>

C4_Witness ==
    /\ DiamondBuilt
    /\ pending = <<>>
    /\ iter = "reverse_topological"
    /\ done
    /\ out = <<4, 2, 3, 1>>

\* C5 as stated: on the diamond, into_breadth_first_edges yields the pairs in
\* insertion order, [(None,A), (A,B), (A,C), (B,D), (C,D)].
C5_DiamondBreadthFirstInsertionOrder ==
    (DiamondBuilt /\ iter = "into_breadth_first_edges" /\ done) =>
        out = << <<None, 1>>, <<1, 2>>, <<1, 3>>, <<2, 4>>, <<3, 4>> >>

\* The targets (second components) of the pairs yielded so far.
Targets == { out[i][2] : i \in 1..Len(out) }
TargetCount(n) == Cardinality({ i \in 1..Len(out) : out[i][2] = n })

\* C6 as stated: when the breadth-first iteration is over, every reachable
\* node has appeared exactly once as a target.
C6_Original ==
    (iter = "into_breadth_first_edges" /\ done) =>
        \A n \in Reachable : TargetCount(n) = 1

\* C6, amended: every target yielded is a reachable node, and when the
\* iteration is over every reachable node has appeared at least once as a
\* target (once for each root entry and each edge from a reachable node
\* that names it).
C6_EveryReachableNodeIsATarget ==
    iter = "into_breadth_first_edges" =>
        LET R == Reachable IN
        /\ Targets \subseteq R
        /\ done => \A n \in R : TargetCount(n) >= 1

C6_Witness ==
    /\ iter = "into_breadth_first_edges"
    /\ done
    /\ Cardinality(Reachable) >= 2
    /\ \E n \in Reachable : TargetCount(n) >= 2
    /\ \A n \in Reachable : TargetCount(n) >= 1

\* How often the pair (p, c) was recorded where the iteration can get at it:
\* as a root entry, or as an edge out of a node of R, the reachable nodes.
RecordedCount(R, p, c) ==
    IF p = None THEN Occurs(roots, c)
    ELSE IF p \in R /\ HasEntry(adjacency_map, p)
         THEN Occurs(adjacency_map[p], c)
         ELSE 0

\* C7: the breadth-first iteration never yields a pair more often than it
\* was recorded (a node is expanded at most once), and when it is over it
\* has yielded every root entry and every edge out of a reachable node
\* exactly once per recorded occurrence, so the number of pairs is the
\* number of root entries plus the lengths of the successor lists of the
\* reachable nodes.
C7_EachEdgeOncePerOccurrence ==
    iter = "into_breadth_first_edges" =>
        LET R == Reachable IN
        /\ \A p \in Nodes \cup {None}, c \in Nodes :
              Occurs(out, <<p, c>>) <= RecordedCount(R, p, c)
        /\ done =>
              /\ \A p \in Nodes \cup {None}, c \in Nodes :
                    Occurs(out, <<p, c>>) = RecordedCount(R, p, c)
              /\ Len(out) = Len(roots)
                    + SumLen(adjacency_map, R \cap DOMAIN adjacency_map)

C7_Witness ==
    /\ iter = "into_breadth_first_edges"
    /\ done
    /\ \E n \in DOMAIN adjacency_map : n \in Reachable /\ TargetCount(n) >= 2
    /\ \E n \in DOMAIN adjacency_map : n \notin Reachable
    /\ Len(out) = Len(roots)
          + SumLen(adjacency_map, Reachable \cap DOMAIN adjacency_map)

\* C9: a step that changes the map is one insert call: with Some(from) it
\* appends node to from's successor list (created when absent) and leaves
\* the roots and every other list alone; with None it appends node to the
\* roots and leaves every successor list alone; it returns Some((node, the
\* last element of the list pushed to)).
InsertEffect(from_handle, node) ==
    /\ inserted' = <<node, node>>
    /\ IF from_handle = None
       THEN /\ roots' = Append(roots, node)
            /\ adjacency_map' = adjacency_map
       ELSE /\ roots' = roots
            /\ DOMAIN adjacency_map' = DOMAIN adjacency_map \cup {from_handle}
            /\ adjacency_map'[from_handle] =
                 Append(EntryOrInsert(adjacency_map, from_handle), node)
            /\ \A k \in DOMAIN adjacency_map \ {from_handle} :
                 adjacency_map'[k] = adjacency_map[k]

C9_InsertAppendsAndFrames ==
    [][ (roots' # roots \/ adjacency_map' # adjacency_map \/ inserted' # inserted)
          => \E from_handle \in Nodes \cup {None}, node \in Nodes :
                InsertEffect(from_handle, node) ]_vars

C9_Witness ==
    /\ Len(roots) >= 1
    /\ \E k \in DOMAIN adjacency_map :
          Len(adjacency_map[k]) >= 2 /\ adjacency_map[k][1] # adjacency_map[k][2]
    /\ inserted # <<>>

\* The list is `p` package.json references, then the visitor's, then
\* handle_call's, the last two each in the order of their statements or
\* effects.
OrderedFrom(p) ==
    \E g \in p..Len(references) :
        /\ \A i \in 1..p : references[i].by = "P"
        /\ \A i \in (p + 1)..g : references[i].by = "G"
        /\ \A i \in (g + 1)..Len(references) : references[i].by = "F"
        /\ \A i, j \in (p + 1)..Len(references) :
              (i < j /\ references[i].by = references[j].by)
                  => references[i].at <= references[j].at

\* C10 as stated: the list module_references returns for a parsed module is
\* the visitor's output, in source order, followed by handle_call's, in
\* effect order.
C10_Original ==
    (result = "Ok" /\ module # <<>>) => OrderedFrom(0)

\* C10, amended: the list module_references returns is the PackageJson
\* reference when a package.json was found, then the visitor's output, in
\* source order, then handle_call's, in effect order; the same holds of
\* the list at every moment before.
C10_PackageJsonThenVisitorThenEffects ==
    OrderedFrom(0) \/ OrderedFrom(1)

C10_Witness ==
    /\ result = "Ok"
    /\ Len(references) >= 4
    /\ references[1].by = "P"
    /\ references[2].by = "G"
    /\ \E i, j \in 1..Len(references) :
          /\ references[i].by = "F"
          /\ references[j].by = "F"
          /\ references[i].at < references[j].at
    /\ diagnostics # <<>>

\* C11 as stated: when the parser returned Unparseable or NotFound,
\* module_references returns an empty reference set and no diagnostic was
\* raised.
C11_Original ==
    (result = "Ok" /\ parsed \in {"Unparseable", "NotFound"}) =>
        references = <<>> /\ diagnostics = <<>>

\* C11, amended: when the parser returned Unparseable or NotFound,
\* module_references returns a set that holds no reference of the visitor
\* or of handle_call, only the PackageJson reference when a package.json
\* was found, and no diagnostic was raised.
C11_OnlyPackageJsonWhenNotParsed ==
    parsed \in {"Unparseable", "NotFound"} =>
        /\ result = "Ok"
        /\ pc = "done"
        /\ references \in {<<>>, <<PackageJsonReference>>}
        /\ diagnostics = <<>>

C11_Witness ==
    /\ result = "Ok"
    /\ parsed = "Unparseable"
    /\ references = <<PackageJsonReference>>
    /\ diagnostics = <<>>

\* What handle_call pushed (tagged "F") and the diagnostics it raised.
Pushed == SelectSeq(references, LAMBDA r : r.by = "F")
Handled(kind) ==
    /\ pc = "handled"
    /\ effect_func = WellKnownFunction(kind)
    /\ effect_args.ok
AnalysableArg(i) ==
    /\ Len(effect_args.vals) >= i
    /\ PatternIntoString(effect_args.vals[i]) # <<>>

\* C12: a call whose callee is Require or Import, with exactly one argument
\* that yields a literal string pattern, pushes exactly one Esm reference
\* with that string and raises no diagnostic; with no argument, several
\* arguments or a non-literal argument it pushes nothing and raises exactly
\* one diagnostic, whose id is .../require for Require and
\* .../dynamic-import for Import.
C12_RequireImportLiteralOrDiagnostic ==
    \A kind \in {"Require", "Import"} :
        Handled(kind) =>
            IF Len(effect_args.vals) = 1 /\ AnalysableArg(1)
            THEN /\ Pushed = <<EsmAssetReference(
                                  PatternIntoString(effect_args.vals[1])[1], "F", 1)>>
                 /\ diagnostics = <<>>
            ELSE /\ Pushed = <<>>
                 /\ diagnostics =
                        <<Diagnostic(IF kind = "Require" THEN REQUIRE
                                     ELSE DYNAMIC_IMPORT, 1)>>

C12_Witness ==
    /\ Handled("Import")
    /\ effect_args.vals = <<ConstantStr("./c"), ConstantStr("./d")>>
    /\ Pushed = <<>>
    /\ diagnostics = <<Diagnostic(DYNAMIC_IMPORT, 1)>>

\* C13 as stated: a call whose callee is Require or Import, with exactly one
\* argument whose pattern is an alternatives of n literals, pushes one Esm
\* reference per literal, in order: for the alternatives "./d" | "./e" the
\* references are [Esm "./d", Esm "./e"].
C13_OneEsmPerAlternative ==
    \A kind \in {"Require", "Import"} :
        (/\ Handled(kind)
         /\ effect_args.vals =
                <<Alternatives(<<ConstantStr("./d"), ConstantStr("./e")>>)>>)
        => Pushed = <<EsmAssetReference("./d", "F", 1),
                       EsmAssetReference("./e", "F", 1)>>

\* C14: a call whose callee is RequireResolve raises a diagnostic and pushes
\* no reference, whatever its arguments are, a single literal string
\* included.
C14_RequireResolveAlwaysDiagnostic ==
    Handled("RequireResolve") =>
        /\ Pushed = <<>>
        /\ diagnostics = <<Diagnostic(REQUIRE, 1)>>

C14_Witness ==
    /\ Handled("RequireResolve")
    /\ effect_args.vals = <<ConstantStr("./c")>>
    /\ Pushed = <<>>
    /\ Len(diagnostics) = 1

\* C15: a call whose callee is FsReadMethod pushes exactly one Esm reference
\* with the literal when argument 0 exists and yields a literal string
\* pattern, whatever the further arguments are; otherwise it pushes nothing
\* and raises exactly one diagnostic, with id .../fs-method.
C15_FsReadMethodFirstArgument ==
    Handled("FsReadMethod") =>
        IF AnalysableArg(1)
        THEN /\ Pushed = <<EsmAssetReference(
                              PatternIntoString(effect_args.vals[1])[1], "F", 1)>>
             /\ diagnostics = <<>>
        ELSE /\ Pushed = <<>>
             /\ diagnostics = <<Diagnostic(FS_METHOD, 1)>>

C15_Witness ==
    /\ Handled("FsReadMethod")
    /\ effect_args.vals = <<ConstantStr("./c"), Unknown>>
    /\ Pushed = <<EsmAssetReference("./c", "F", 1)>>
    /\ diagnostics = <<>>

\* The callees an Alternatives value stands for, nested alternatives
\* flattened, in order.
RECURSIVE Leaves(_)
RECURSIVE LeavesOf(_, _)
LeavesOf(alts, i) ==
    IF i > Len(alts) THEN <<>> ELSE Leaves(alts[i]) \o LeavesOf(alts, i + 1)
Leaves(value) ==
    IF value.tag = "Alternatives" THEN LeavesOf(value.alts, 1) ELSE <<value>>

\* What handling the callee f alone gives, from nothing, with the effect's
\* arguments and span.
Alone(f) == handle_call(CallState(TRUE, <<>>, <<>>), f, effect_args, 1)

RECURSIVE AloneRefs(_, _)
AloneRefs(fs, i) ==
    IF i > Len(fs) THEN <<>> ELSE Alone(fs[i]).refs \o AloneRefs(fs, i + 1)
RECURSIVE AloneDiags(_, _)
AloneDiags(fs, i) ==
    IF i > Len(fs) THEN <<>> ELSE Alone(fs[i]).diags \o AloneDiags(fs, i + 1)

\* C16: a call whose callee is Alternatives(alts) fans out: the references
\* pushed and the diagnostics raised are the concatenation, in the order of
\* alts, of what handling each alternative alone with the same arguments
\* and span gives, nested alternatives recursively; alternatives that are
\* not well-known functions contribute nothing.
C16_AlternativesFanOut ==
    (pc = "handled" /\ effect_func.tag = "Alternatives" /\ effect_args.ok) =>
        LET known == SelectSeq(Leaves(effect_func),
                               LAMBDA f : f.tag = "WellKnownFunction")
        IN  /\ Pushed = AloneRefs(known, 1)
            /\ diagnostics = AloneDiags(known, 1)
            /\ result = "Ok"

C16_Witness ==
    /\ pc = "handled"
    /\ effect_func =
           Alternatives(<<WellKnownFunction("FsReadMethod"),
                          Alternatives(<<Unknown, WellKnownFunction("Require")>>)>>)
    /\ effect_args.vals = <<ConstantStr("./c"), Unknown>>
    /\ Pushed = <<EsmAssetReference("./c", "F", 1)>>
    /\ diagnostics = <<Diagnostic(REQUIRE, 1)>>

IsPrefix(s, t) == Len(s) <= Len(t) /\ SubSeq(t, 1, Len(s)) = s

\* C17: a call that cannot be analysed does not stop the extraction.  The
\* step of the effect loop that raises a diagnostic leaves the loop running
\* with every reference collected so far kept, so later effects are still
\* handled, and when the loop ends module_references returns Ok with the
\* references collected.
C17_DiagnosticDoesNotStopExtraction ==
    [][/\ diagnostics' # diagnostics =>
            /\ pc' = "effects"
            /\ result' = "pending"
            /\ IsPrefix(references, references')
            /\ IsPrefix(diagnostics, diagnostics')
       /\ (pc = "effects" /\ diagnostics # <<>> /\ effect_index' = effect_index) =>
            /\ pc' = "done"
            /\ result' = "Ok"
            /\ references' = references
            /\ diagnostics' = diagnostics]_vars

C17_Witness ==
    /\ result = "Ok"
    /\ parsed = "Ok"
    /\ diagnostics = <<Diagnostic(REQUIRE, 1)>>
    /\ \E i \in 1..Len(references) : references[i] = EsmAssetReference("./c", "F", 2)

\* The references the visitor pushed while visiting statement k.
PushedAt(k) == SelectSeq(references, LAMBDA r : r.by = "G" /\ r.at = k)

\* The last declarator `__webpack_require__ = require("<literal>")` among
\* the statements before the k-th, 0 when there is none.
RECURSIVE LastDecl(_)
LastDecl(k) ==
    IF k <= 1 THEN 0
    ELSE IF module[k - 1].kind = "webpack_require_decl" THEN k - 1
    ELSE LastDecl(k - 1)

\* The handle remembered when statement k is visited.
HandleAt(k) ==
    IF LastDecl(k) = 0 THEN <<>> ELSE RuntimeHandle(module[LastDecl(k)].src[1])

WebpackRefsCarryLatestHandle ==
    \A k \in 1..visit_index :
        /\ \A i \in 1..Len(PushedAt(k)) :
              PushedAt(k)[i].kind \in {"WebpackEntry", "WebpackChunk"} =>
                  /\ LastDecl(k) # 0
                  /\ PushedAt(k)[i].runtime = HandleAt(k)
        /\ module[k].kind = "call_C" =>
              PushedAt(k) = IF LastDecl(k) = 0 THEN <<>>
                            ELSE <<Ref("WebpackEntry", "", HandleAt(k), "G", k)>>
        /\ (module[k].kind = "call_X" /\ LastDecl(k) = 0) => PushedAt(k) = <<>>

\* C18: the visitor pushes a WebpackEntry reference for a call of
\* __webpack_require__.C and WebpackChunk references for a call of
\* __webpack_require__.X only when a runtime handle is remembered, that is
\* after a declarator `__webpack_require__ = require("<literal>")` was
\* visited: calls visited before it push nothing, the handle stays
\* remembered for the rest of the traversal and changes only at a later such
\* declarator, and every reference pushed carries the handle remembered
\* last.
C18_WebpackRefsOnlyWithRememberedHandle ==
    [][/\ WebpackRefsCarryLatestHandle'
       /\ webpack_runtime # <<>> => webpack_runtime' # <<>>
       /\ webpack_runtime' # webpack_runtime =>
              module[visit_index'].kind = "webpack_require_decl"
       /\ webpack_runtime' = HandleAt(visit_index' + 1)]_vars

C18_Witness ==
    /\ visit_index = 3
    /\ module[1].kind = "call_C"
    /\ module[2] = Item("webpack_require_decl", <<"./rt.js">>, <<>>)
    /\ module[3].kind = "call_C"
    /\ references = <<Ref("WebpackRuntimeCandidate", "./rt.js", <<>>, "G", 2),
                      Ref("WebpackEntry", "", RuntimeHandle("./rt.js"), "G", 3)>>

\* C19: whenever a declarator `__webpack_require__ = require("<literal>")`
\* is visited, exactly one WebpackRuntimeCandidate reference with the
\* literal is pushed, whatever the resolver answers for it; and when the
\* resolver does not answer with a single asset (several, or none), the
\* remembered runtime is "not a bundler runtime".
C19_CandidateAlwaysRuntimeNoneUnlessSingle ==
    /\ \A k \in 1..visit_index :
          module[k].kind = "webpack_require_decl" =>
              PushedAt(k) = <<Ref("WebpackRuntimeCandidate", module[k].src[1],
                                  <<>>, "G", k)>>
    /\ \A i \in 1..Len(webpack_runtime) :
          Resolve(webpack_runtime[i].request) # "Single" =>
              webpack_runtime[i].value = WebpackRuntimeNone
    /\ \A j \in 1..Len(references) : \A i \in 1..Len(references[j].runtime) :
          Resolve(references[j].runtime[i].request) # "Single" =>
              references[j].runtime[i].value = WebpackRuntimeNone

C19_Witness ==
    /\ visit_index = 2
    /\ module[1] = Item("webpack_require_decl", <<"./many">>, <<>>)
    /\ module[2].kind = "call_C"
    /\ Resolve("./many") = "Many"
    /\ references = <<Ref("WebpackRuntimeCandidate", "./many", <<>>, "G", 1),
                      Ref("WebpackEntry", "",
                          <<[request |-> "./many", value |-> WebpackRuntimeNone]>>,
                          "G", 2)>>

\* C20: a call __webpack_require__.X(_, [e1, e2, ...], _) with an array
\* literal as second argument, visited while a runtime handle is remembered,
\* pushes one WebpackChunk(runtime, id) per literal element, in array order,
\* and nothing for an element that is not a literal, is a spread or is
\* empty; visiting `var __webpack_require__ = require("./rt.js");
\* __webpack_require__.X(0, ["a", "b"], n);` pushes the candidate for
\* "./rt.js", then the chunks "a" and "b".
C20_OneChunkPerLiteralElement ==
    /\ \A k \in 1..visit_index :
          (module[k].kind = "call_X" /\ LastDecl(k) # 0) =>
              LET lits == SelectSeq(module[k].elems, LAMBDA e : e.kind = "lit")
              IN  PushedAt(k) =
                      [i \in 1..Len(lits) |->
                          Ref("WebpackChunk", lits[i].value, HandleAt(k), "G", k)]
    /\ (/\ visit_index = 2
        /\ module = <<Item("webpack_require_decl", <<"./rt.js">>, <<>>),
                      Item("call_X", <<>>, <<Elem("lit", "a"), Elem("lit", "b")>>)>>)
       => references =
              <<Ref("WebpackRuntimeCandidate", "./rt.js", <<>>, "G", 1),
                Ref("WebpackChunk", "a", RuntimeHandle("./rt.js"), "G", 2),
                Ref("WebpackChunk", "b", RuntimeHandle("./rt.js"), "G", 2)>>

C20_Witness ==
    /\ visit_index = 2
    /\ module[1].kind = "webpack_require_decl"
    /\ module[2] = Item("call_X", <<>>,
                        <<Elem("spread", "a"), Elem("hole", ""), Elem("lit", "b")>>)
    /\ Len(references) = 2
    /\ references[2].kind = "WebpackChunk"
    /\ references[2].request = "b"

\* C21: the visitor pushes exactly one Esm reference with the source string
\* for every import declaration, every `export * from "m"` and every
\* `export { .. } from "m"`, in source order, and nothing for a named
\* export without a source; visiting `import x from "a"; import "b";`
\* pushes [Esm "a", Esm "b"].
C21_OneEsmPerImportOrExportFrom ==
    /\ \A k \in 1..visit_index :
          /\ (\/ module[k].kind \in {"import", "export_all"}
              \/ module[k].kind = "named_export" /\ module[k].src # <<>>)
             => PushedAt(k) = <<EsmAssetReference(module[k].src[1], "G", k)>>
          /\ (module[k].kind = "named_export" /\ module[k].src = <<>>)
             => PushedAt(k) = <<>>
    /\ \A i \in 1..Len(references) : \A j \in 1..Len(references) :
          i < j => references[i].at <= references[j].at
    /\ (/\ visit_index = 2
        /\ module = <<Item("import", <<"a">>, <<>>), Item("import", <<"b">>, <<>>)>>)
       => references = <<EsmAssetReference("a", "G", 1),
                         EsmAssetReference("b", "G", 2)>>
    /\ diagnostics = <<>>

C21_Witness ==
    /\ visit_index = 3
    /\ module = <<Item("export_all", <<"a">>, <<>>),
                  Item("named_export", <<>>, <<>>),
                  Item("named_export", <<"b">>, <<>>)>>
    /\ references = <<EsmAssetReference("a", "G", 1),
                      EsmAssetReference("b", "G", 3)>>

\* The directory that contains a file: its path without the last segment.
Parent(segs) == SubSeq(segs, 1, Len(segs) - 1)

\* C22 as stated: the value visitor rewrites FreeVar(Dirname) to the
\* Constant string of the directory that contains the source file, not to
\* any other path, and reports the value as changed.
C22_DirnameIsSourceDirectory ==
    (/\ pc = "value_visited"
     /\ visitor_in = FreeVar("Dirname")
     /\ source_path.ok)
    => /\ visitor_out.value = ConstantStr(PathString(Parent(source_path.segs)))
       /\ visitor_out.modified

RECURSIVE Within(_)
Within(d) ==
    IF d = 0 THEN Range(starts)
    ELSE LET W == Within(d - 1) IN W \cup UNION { Succ(n) : n \in W }

\* The shortest distance of a reachable node from the roots, and the
\* distance of a pair's parent (-1 for a root pair, which has none).
Dist(n) == CHOOSE d \in 0..NumNodes :
               /\ n \in Within(d)
               /\ \A e \in 0..NumNodes : n \in Within(e) => d <= e
ParentDist(pair) == IF pair[1] = None THEN 0 - 1 ELSE Dist(pair[1])

\* C24: into_breadth_first_edges yields the pairs in breadth-first order:
\* the root pairs (None, r) come first, a pair whose parent is at distance d
\* from the roots is never yielded after a pair whose parent is at distance
\* d + 1, and the first time a node is dequeued, which is when it is
\* expanded, its pair comes from a parent one step nearer to the roots than
\* the node's shortest distance.
C24_BreadthFirstLevelOrder ==
    iter = "into_breadth_first_edges" =>
        /\ \A i \in 1..Len(out) : \A j \in 1..Len(out) :
              i < j => ParentDist(out[i]) <= ParentDist(out[j])
        /\ \A i \in 1..Len(out) :
              (\A h \in 1..(i - 1) : out[h][2] # out[i][2]) =>
                  ParentDist(out[i]) + 1 = Dist(out[i][2])
        /\ Range(visit_order) = Targets

C24_Witness ==
    /\ iter = "into_breadth_first_edges"
    /\ done
    /\ roots = <<1, 2>>
    /\ out = << <<None, 2>>, <<None, 1>>, <<1, 2>> >>

\* The most items an iteration can yield: every recorded root entry and edge
\* for the breadth-first edges, every reachable node for the reverse
\* topological orders.
YieldBound ==
    IF iter = "into_breadth_first_edges" THEN Recorded
    ELSE Cardinality(Reachable)

\* C25: every iterator terminates on every graph built by insert, cycles,
\* self-loops, duplicate edges and duplicate roots included.  Each call of
\* next() either yields one more item or returns None with the stack or
\* queue empty, and the number of items yielded never exceeds a bound fixed
\* by the graph, so None is returned after finitely many calls; after that
\* nothing more is yielded.
C25_IteratorsTerminate ==
    [][(iter # "none" /\ iter' = iter) =>
          /\ ~done
          /\ \/ done' /\ stack' = <<>> /\ out' = out
             \/ ~done' /\ Len(out') = Len(out) + 1
          /\ Len(out') <= YieldBound']_vars

C25_Witness ==
    /\ iter = "into_breadth_first_edges"
    /\ done
    /\ stack = <<>>
    /\ roots = <<1, 1>>
    /\ HasEntry(adjacency_map, 1)
    /\ adjacency_map[1] = <<1>>
    /\ Len(out) = 3

\* The arguments of the effect linked one after another, without a cache.
LinkedInOrder ==
    [ok |-> \A i \in 1..Len(link_tasks) : LinkValue(source_path, link_tasks[i].arg).ok,
     vals |-> IF \A i \in 1..Len(link_tasks) : LinkValue(source_path, link_tasks[i].arg).ok
              THEN [i \in 1..Len(link_tasks) |->
                       LinkValue(source_path, link_tasks[i].arg).value]
              ELSE <<>>]

\* C26: the arguments of one effect are linked concurrently against the one
\* cache, and the outcome does not depend on the interleaving: the linked
\* arguments are delivered in argument order, whatever the order in which
\* the link futures ended and whatever the cache held, so the references,
\* their order and the diagnostics are those of linking the arguments one
\* after another.
C26_LinkInterleavingDoesNotMatter ==
    /\ pc \in {"handle_call", "handled"} => effect_args = LinkedInOrder
    /\ pc = "handled" =>
          LET r == handle_call(CallState(TRUE, <<>>, <<>>), effect_func,
                               LinkedInOrder, 1)
          IN  /\ references = r.refs
              /\ diagnostics = r.diags
              /\ result = IF r.ok THEN "Ok" ELSE "Err"
    /\ \A e \in link_cache : e.value = LinkValue(source_path, e.key).value

C26_Witness ==
    /\ pc = "handled"
    /\ effect_func = WellKnownFunction("FsReadMethod")
    /\ link_order = <<2, 1>>
    /\ link_tasks[1].arg = ConstantStr("./c")
    /\ link_tasks[2].arg = Member(JsModule("fs"), "readFile")
    /\ CacheHit(link_cache, link_tasks[2].arg)
    /\ references = <<EsmAssetReference("./c", "F", 1)>>

====
